---- MODULE Spec2Model ----
(***************************************************************************)
(* Model of delegatefn.delegate (src/delegatefn/delegate.py).              *)
(*                                                                         *)
(* delegate(delegatee, **options) returns a closure `decorator`; applying  *)
(* decorator(delegator) reads the two reflected signatures, gathers the    *)
(* delegatee's parameters, and patches delegator.__annotations__,          *)
(* delegator.__signature__ and delegator.__doc__ in place.  The state of   *)
(* the model is the closure (delegatee and options), the delegator's three *)
(* metadata slots, the decorator's locals after its last run, and how that *)
(* run ended (returned, or the exception raised and the line raising it).  *)
(***************************************************************************)
EXTENDS Integers, Sequences, FiniteSets, TLC

\* ------------------------------------------------------------------ bounds
MaxDelegateeParams == 2
MaxDelegatorParams == 2
MaxDecorations == 2

\* ------------------------------------------------- inspect.Parameter values
POSITIONAL_OR_KEYWORD == "POSITIONAL_OR_KEYWORD"
KEYWORD_ONLY == "KEYWORD_ONLY"
VAR_KEYWORD == "VAR_KEYWORD"
POSITIONAL_ONLY == "POSITIONAL_ONLY"
VAR_POSITIONAL == "VAR_POSITIONAL"

\* inspect._empty, the marker of a missing default or annotation
Empty == "_empty"

\* The kinds the tool supports; positional-only and variadic-positional
\* parameters are outside the inputs considered.
SupportedKinds == {POSITIONAL_OR_KEYWORD, KEYWORD_ONLY, VAR_KEYWORD}

\* inspect._ParameterKind is an IntEnum; Signature orders parameters by it
KindRank(kind) ==
  CASE kind = POSITIONAL_ONLY -> 0
    [] kind = POSITIONAL_OR_KEYWORD -> 1
    [] kind = VAR_POSITIONAL -> 2
    [] kind = KEYWORD_ONLY -> 3
    [] kind = VAR_KEYWORD -> 4

\* --------------------------------------------------------- input universes
\* names the delegatee's parameters are drawn from
ParamNames == {"a", "b", "kwargs"}
\* names the delegator's parameters are drawn from (one explicit name and the
\* collector's; names are unique, so these also cap the delegator's length)
DelegatorNames == {"a", "kwargs"}
\* (default, annotation) of the parameters the delegatee declares: x, x: int = None
DelegateeShapes ==
  {[default |-> Empty, annotation |-> Empty],
   [default |-> "None", annotation |-> "int"]}
\* (default, annotation) of the parameters the delegator declares: x, x: str = None
DelegatorShapes ==
  {[default |-> Empty, annotation |-> Empty],
   [default |-> "None", annotation |-> "str"]}
IgnoreNames == {"a"}
KwargsNames == {"kwargs"}
DelegateeDoc == "This is the docstring for foo."
DelegatorDoc == "This is the docstring for bar."

Range(s) == {s[i] : i \in 1..Len(s)}
NamesOf(sig) == {sig[i].name : i \in 1..Len(sig)}

\* Parameters a def statement can declare: a **kwargs parameter has no default
\* and, in the inputs considered, no annotation
ParamsWith(names, shapes) ==
  {p \in {[name |-> n, kind |-> k, default |-> sh.default, annotation |-> sh.annotation] :
            n \in names, k \in SupportedKinds, sh \in shapes} :
     p.kind = VAR_KEYWORD => (p.default = Empty /\ p.annotation = Empty)}

\* inspect.Signature.__init__ validation, run by Signature.replace:
\* kinds never decrease, no parameter without a default follows a positional
\* parameter with one, and no name occurs twice.
ValidParameters(ps) ==
  /\ \A i, j \in 1..Len(ps) : i < j => KindRank(ps[i].kind) <= KindRank(ps[j].kind)
  /\ \A i, j \in 1..Len(ps) :
       (/\ i < j
        /\ ps[i].kind \in {POSITIONAL_ONLY, POSITIONAL_OR_KEYWORD}
        /\ ps[j].kind \in {POSITIONAL_ONLY, POSITIONAL_OR_KEYWORD}
        /\ ps[i].default # Empty) => ps[j].default # Empty
  /\ \A i, j \in 1..Len(ps) : i < j => ps[i].name # ps[j].name

\* Signatures inspect.signature can return for a def with at most n parameters
\* (at most one **kwargs follows from the rank order and the unique names
\* only together with Python's grammar, so it is stated here)
Signatures(n, names, shapes) ==
  {sig : sig \in {s \in UNION {[1..k -> ParamsWith(names, shapes)] : k \in 0..n} :
                    /\ ValidParameters(s)
                    /\ Cardinality({i \in 1..Len(s) : s[i].kind = VAR_KEYWORD}) <= 1}}

\* inspect.signature(delegatee) of the delegatees considered
DelegateeSignatures == Signatures(MaxDelegateeParams, ParamNames, DelegateeShapes)

\* inspect.signature(delegator) of the freshly defined delegators considered
DelegatorSignatures == Signatures(MaxDelegatorParams, DelegatorNames, DelegatorShapes)

\* __annotations__ of a freshly defined function: the annotated parameters
AnnotationsOf(sig) ==
  [n \in {sig[i].name : i \in {j \in 1..Len(sig) : sig[j].annotation # Empty}} |->
     (CHOOSE p \in Range(sig) : p.name = n).annotation]

VARIABLES
  delegatee,           \* closure: the delegatee's signature and __doc__
  kwonly,              \* closure: option kwonly
  delegate_docstring,  \* closure: option delegate_docstring
  ignore,              \* closure: option ignore
  kwargs_name,         \* closure: option kwargs_name
  default_values,      \* closure: option default_values
  preserve_signature,  \* closure: option preserve_signature
  signature,           \* what inspect.signature(delegator) returns
  annotations,         \* delegator.__annotations__
  doc,                 \* delegator.__doc__
  delegator_sig,       \* local of the last run: the delegator's signature on entry
  delegatee_kwargs,    \* local of the last run: the gathered parameters, in order
  parameters,          \* local of the last run: the combined list of line 83
  outcome,             \* "none", "returned" or the exception the last run raised
  line,                \* the line that returned or raised in the last run
  calls                \* number of times decorator has been applied

vars == <<delegatee, kwonly, delegate_docstring, ignore, kwargs_name, default_values,
          preserve_signature, signature, annotations, doc, delegator_sig,
          delegatee_kwargs, parameters, outcome, line, calls>>

closure == <<delegatee, kwonly, delegate_docstring, ignore, kwargs_name, default_values,
             preserve_signature>>

Param(sig, name) == CHOOSE p \in Range(sig) : p.name = name

\* mutant of Skipped: the ignore set is never consulted
SkippedNever(name, ign) == FALSE

\* line 51: if name in ignore: continue
Skipped(name, ign) == name \in ign

\* mutant of AlreadyDefined: parameters the delegator declares are not skipped
AlreadyDefinedNever(name, dsig) == FALSE

\* line 61: elif name in delegator_sig.parameters: continue
AlreadyDefined(name, dsig) == name \in NamesOf(dsig)

\* lines 54-56: the annotation written to delegator.__annotations__
TransferAnnotation(ann, param, ign, dsig) ==
  IF /\ \/ param.kind = KEYWORD_ONLY
        \/ param.kind = POSITIONAL_OR_KEYWORD /\ param.name \notin ign
     /\ param.name \in NamesOf(dsig)
     /\ Param(dsig, param.name).annotation = Empty
  THEN [n \in DOMAIN ann \cup {param.name} |->
          IF n = param.name THEN param.annotation ELSE ann[n]]
  ELSE ann

\* mutant of AsKeywordOnly: the kind is not replaced
AsKeywordOnlyKept(param) == param

\* line 67: param.replace(kind=param.KEYWORD_ONLY)
AsKeywordOnly(param) == [param EXCEPT !.kind = KEYWORD_ONLY]

\* lines 65-67: a positional-or-keyword parameter is gathered when kwonly is off
GatherPositional(param, kwonly_) ==
  IF ~kwonly_ THEN <<AsKeywordOnly(param)>> ELSE <<>>

\* lines 58-73: what one delegatee parameter adds to delegatee_kwargs
Gathered(param, dsig, kwonly_, default_values_) ==
  IF param.kind = VAR_KEYWORD THEN <<param>>
  ELSE IF AlreadyDefined(param.name, dsig) THEN <<>>
  ELSE IF param.kind = POSITIONAL_OR_KEYWORD THEN GatherPositional(param, kwonly_)
  ELSE IF param.kind = KEYWORD_ONLY THEN <<param>>
  ELSE IF default_values_ THEN <<[param EXCEPT !.default = param.default]>>
  ELSE <<>>

\* lines 48-73: the loop over delegatee_sig.parameters, from parameter i on;
\* yields the locals delegatee_kwargs and the patched __annotations__
RECURSIVE Gather(_, _, _, _, _, _, _, _)
Gather(i, dparams, kw, ann, ign, dsig, kwonly_, default_values_) ==
  IF i > Len(dparams) THEN [kwargs |-> kw, annotations |-> ann]
  ELSE IF Skipped(dparams[i].name, ign)
       THEN Gather(i + 1, dparams, kw, ann, ign, dsig, kwonly_, default_values_)
       ELSE Gather(i + 1, dparams,
                   kw \o Gathered(dparams[i], dsig, kwonly_, default_values_),
                   TransferAnnotation(ann, dparams[i], ign, dsig),
                   ign, dsig, kwonly_, default_values_)

\* mutant of CollectorCheck: the check of line 45 is missing
CollectorCheckSkipped(dsig, name) == "pass"

\* line 45: delegator_sig.parameters[kwargs_name] raises KeyError when absent,
\* and the assert fails when the parameter is not a **kwargs parameter
CollectorCheck(dsig, name) ==
  IF name \notin NamesOf(dsig) THEN "KeyError"
  ELSE IF Param(dsig, name).kind # VAR_KEYWORD THEN "AssertionError"
  ELSE "pass"

\* lines 77-79: the assert on the delegatee's **kwargs
KwargsAssert(dparams, kw) ==
  \/ \A i \in 1..Len(dparams) : dparams[i].kind # VAR_KEYWORD
  \/ \E i \in 1..Len(kw) : kw[i].kind = VAR_KEYWORD

\* mutant of AllButLast: the delegator's last parameter is kept
AllButLastKeepAll(dsig) == dsig

\* line 83: list(delegator_sig.parameters.values())[:-1]
AllButLast(dsig) == SubSeq(dsig, 1, Len(dsig) - 1)

\* line 83: the combined parameter list
Combine(dsig, kw) == AllButLast(dsig) \o kw

\* lines 85-88: parameters[name] = ... indexes a list with a str, which raises
\* TypeError on the first gathered parameter
PreserveRaises(preserve, kw) == preserve /\ Len(kw) > 0

\* mutant of DocAfter: the delegatee's docstring is never copied
DocAfterOwn(flag, sourceDoc, ownDoc) == ownDoc

\* lines 92-93: the __doc__ the delegator has when decorator returns
DocAfter(flag, sourceDoc, ownDoc) == IF flag THEN sourceDoc ELSE ownDoc

Init ==
  /\ delegatee \in [parameters : DelegateeSignatures, doc : {DelegateeDoc}]
  /\ kwonly \in BOOLEAN
  /\ delegate_docstring \in BOOLEAN
  /\ ignore \in SUBSET IgnoreNames
  /\ kwargs_name \in KwargsNames
  /\ default_values \in BOOLEAN
  /\ preserve_signature \in BOOLEAN
  /\ signature \in DelegatorSignatures
  /\ annotations = AnnotationsOf(signature)
  /\ doc = DelegatorDoc
  /\ delegator_sig = <<>>
  /\ delegatee_kwargs = <<>>
  /\ parameters = <<>>
  /\ outcome = "none"
  /\ line = 0
  /\ calls = 0

\* One application of the closure: decorator(delegator), lines 29-96
decorator ==
  /\ calls < MaxDecorations
  /\ calls' = calls + 1
  /\ delegator_sig' = signature
  /\ UNCHANGED closure
  /\ LET check == CollectorCheck(signature, kwargs_name)
         g == Gather(1, delegatee.parameters, <<>>, annotations, ignore, signature,
                     kwonly, default_values)
         combined == Combine(signature, g.kwargs)
     IN IF check # "pass"
        THEN /\ outcome' = check
             /\ line' = 45
             /\ delegatee_kwargs' = <<>>
             /\ parameters' = <<>>
             /\ UNCHANGED <<signature, annotations, doc>>
        ELSE /\ delegatee_kwargs' = g.kwargs
             /\ annotations' = g.annotations
             /\ IF ~KwargsAssert(delegatee.parameters, g.kwargs)
                THEN /\ outcome' = "AssertionError"
                     /\ line' = 77
                     /\ parameters' = <<>>
                     /\ UNCHANGED <<signature, doc>>
                ELSE /\ parameters' = combined
                     /\ IF PreserveRaises(preserve_signature, g.kwargs)
                        THEN /\ outcome' = "TypeError"
                             /\ line' = 88
                             /\ UNCHANGED <<signature, doc>>
                        ELSE IF ~ValidParameters(combined)
                        THEN /\ outcome' = "ValueError"
                             /\ line' = 89
                             /\ UNCHANGED <<signature, doc>>
                        ELSE /\ outcome' = "returned"
                             /\ line' = 96
                             /\ signature' = combined
                             /\ doc' = DocAfter(delegate_docstring, delegatee.doc, doc)

Next == decorator

Spec == Init /\ [][Next]_vars

TypeOK ==
  /\ outcome \in {"none", "returned", "KeyError", "AssertionError", "TypeError", "ValueError"}
  /\ line \in {0, 45, 77, 88, 89, 96}
  /\ calls \in 0..MaxDecorations
  /\ doc \in {DelegateeDoc, DelegatorDoc}

\* ------------------------------------------------------------------ claims
Returned == outcome = "returned"
HasRun == calls >= 1

\* the delegator's explicit parameters on entry: all but its **kwargs collector
ExplicitNames(dsig) == {dsig[i].name : i \in {j \in 1..Len(dsig) : dsig[j].kind # VAR_KEYWORD}}

HasVarKeyword(sig) == \E i \in 1..Len(sig) : sig[i].kind = VAR_KEYWORD

HasCollector(dsig, name) ==
  \E i \in 1..Len(dsig) : dsig[i].name = name /\ dsig[i].kind = VAR_KEYWORD

Occurrences(sig, name) == Cardinality({i \in 1..Len(sig) : sig[i].name = name})

DefaultConfig ==
  /\ ~kwonly
  /\ delegate_docstring
  /\ ignore = {}
  /\ kwargs_name = "kwargs"
  /\ ~default_values
  /\ ~preserve_signature

\* C1 (as claimed): under the default configuration the merged signature
\* contains every delegatee parameter that is not ignored and is not an
\* explicit (non-collector) parameter of the delegator, the positional-or-keyword
\* and keyword-only ones as keyword-only parameters.
C1_Claimed ==
  (DefaultConfig /\ Returned) =>
    \A i \in 1..Len(delegatee.parameters) :
      LET p == delegatee.parameters[i]
      IN (p.name \notin ignore /\ p.name \notin ExplicitNames(delegator_sig)) =>
           \E k \in 1..Len(signature) :
             /\ signature[k].name = p.name
             /\ p.kind \in {POSITIONAL_OR_KEYWORD, KEYWORD_ONLY} => signature[k].kind = KEYWORD_ONLY

\* names the delegatee and the delegator's explicit parameters share
SharedNames == NamesOf(delegatee.parameters) \cap ExplicitNames(delegator_sig)

C3_Original ==
  Returned => \A n \in ignore : n \notin NamesOf(signature)

\* C3 (amended): no delegatee parameter whose name is in ignore is gathered, so
\* a parameter with an ignored name appears in the merged signature only when
\* the delegator itself explicitly declares it, and it is then the delegator's.
C3_Ignore ==
  HasRun =>
    \A n \in ignore :
      /\ n \notin NamesOf(delegatee_kwargs)
      /\ Returned =>
           /\ n \in NamesOf(signature) <=> n \in ExplicitNames(delegator_sig)
           /\ n \in NamesOf(signature) => Param(signature, n) = Param(delegator_sig, n)

C3_Witness ==
  /\ Returned
  /\ \E n \in ignore :
       /\ n \in NamesOf(delegatee.parameters)
       /\ n \notin NamesOf(delegator_sig)
       /\ n \notin NamesOf(signature)
       /\ Len(delegatee_kwargs) > 0

\* C4: a merged signature has a **kwargs parameter exactly when the delegatee
\* declares one; it then has exactly one, in last position, and when the
\* delegatee declares none the delegator's collector is gone.
C4_VarKeyword ==
  Returned =>
    /\ HasVarKeyword(signature) <=> HasVarKeyword(delegatee.parameters)
    /\ Cardinality({i \in 1..Len(signature) : signature[i].kind = VAR_KEYWORD}) <= 1
    /\ \A i \in 1..Len(signature) : signature[i].kind = VAR_KEYWORD => i = Len(signature)
    /\ ~HasVarKeyword(delegatee.parameters) => kwargs_name \notin NamesOf(signature)

C4_Witness ==
  /\ Returned
  /\ HasVarKeyword(delegatee.parameters)
  /\ HasVarKeyword(signature)
  /\ Len(signature) >= 2

\* C5 (as claimed): with kwonly set, every positional-or-keyword delegatee
\* parameter that is not ignored and does not collide with an explicit
\* delegator parameter appears in the merged signature as keyword-only.
C5_Claimed ==
  (kwonly /\ Returned) =>
    \A i \in 1..Len(delegatee.parameters) :
      LET p == delegatee.parameters[i]
      IN (/\ p.kind = POSITIONAL_OR_KEYWORD
          /\ p.name \notin ignore
          /\ p.name \notin NamesOf(delegator_sig)) =>
           \E k \in 1..Len(signature) :
             signature[k].name = p.name /\ signature[k].kind = KEYWORD_ONLY

\* C6: when the delegator has no **kwargs parameter named kwargs_name (the name
\* is absent, or names a parameter of another kind) the decoration raises at
\* line 45 and leaves the delegator's signature as it was; nothing was gathered.
C6_ConfigurationError ==
  (HasRun /\ ~HasCollector(delegator_sig, kwargs_name)) =>
    /\ outcome \in {"KeyError", "AssertionError"}
    /\ line = 45
    /\ signature = delegator_sig
    /\ delegatee_kwargs = <<>>
    /\ parameters = <<>>
    /\ calls = 1 => (doc = DelegatorDoc /\ annotations = AnnotationsOf(signature))

C6_Witness ==
  /\ HasRun
  /\ outcome = "AssertionError"
  /\ line = 45
  /\ kwargs_name \in NamesOf(delegator_sig)
  /\ HasVarKeyword(delegatee.parameters)

\* C7: a decoration that returns with delegate_docstring set leaves the
\* delegator with the delegatee's docstring, a second decoration after one that
\* returned leaves that docstring as it is, and with delegate_docstring unset
\* the delegator's docstring never changes.
C7_Docstring ==
  [][ /\ (outcome' = "returned" /\ delegate_docstring) => doc' = delegatee.doc
      /\ (outcome = "returned" /\ delegate_docstring) => doc' = doc
      /\ ~delegate_docstring => doc' = doc ]_vars

C7_Witness ==
  /\ calls = 2
  /\ Returned
  /\ delegate_docstring
  /\ doc = delegatee.doc
  /\ doc # DelegatorDoc

\* C8 (as claimed): with default_values unset, every parameter the merged
\* signature inherits from the delegatee has no default.
C8_Claimed ==
  (~default_values /\ Returned) =>
    \A n \in NamesOf(delegatee_kwargs) : Param(signature, n).default = Empty

\* position of a kind in the order positional-or-keyword, keyword-only, **kwargs
Group(kind) ==
  CASE kind = POSITIONAL_OR_KEYWORD -> 1
    [] kind = KEYWORD_ONLY -> 2
    [] kind = VAR_KEYWORD -> 3
    [] OTHER -> 0

Grouped(ps) ==
  /\ \A i, j \in 1..Len(ps) : i < j => Group(ps[i].kind) <= Group(ps[j].kind)
  /\ \A i \in 1..Len(ps) : Group(ps[i].kind) # 0
  /\ Cardinality({i \in 1..Len(ps) : ps[i].kind = VAR_KEYWORD}) <= 1
  /\ \A i \in 1..Len(ps) : ps[i].kind = VAR_KEYWORD => i = Len(ps)

\* C9: the combined parameter list of every decoration, and the signature the
\* delegator carries, are grouped positional-or-keyword, then keyword-only,
\* then at most one **kwargs parameter, which is last; for every configuration.
C9_Ordering == Grouped(parameters) /\ Grouped(signature)

C9_Witness ==
  /\ Returned
  /\ Len(delegatee_kwargs) >= 2
  /\ \E i \in 1..Len(signature) : signature[i].kind = POSITIONAL_OR_KEYWORD
  /\ \E i \in 1..Len(signature) : signature[i].kind = KEYWORD_ONLY
  /\ \E i \in 1..Len(signature) : signature[i].kind = VAR_KEYWORD

\* C10 (as claimed): an explicit delegator parameter without an annotation that
\* shares its name with a non-ignored positional-or-keyword or keyword-only
\* delegatee parameter carries the delegatee's annotation in the merged signature.
C10_Claimed ==
  Returned =>
    \A n \in SharedNames :
      LET s == Param(delegatee.parameters, n)
          w == Param(delegator_sig, n)
      IN (/\ w.annotation = Empty
          /\ n \notin ignore
          /\ s.kind \in {POSITIONAL_OR_KEYWORD, KEYWORD_ONLY}) =>
           Param(signature, n).annotation = s.annotation
====
